---------------------------- MODULE Spec2Model ----------------------------
(***************************************************************************)
(* The UI state machine of src/src/main.rs: the App struct shared by the   *)
(* key-event callback and the redraw callback registered in App::run.      *)
(*                                                                         *)
(* app      the App struct.  last_instant is kept as app.elapsed, the      *)
(*          value last_instant.elapsed() would return now, in              *)
(*          milliseconds, saturated at the largest threshold the code      *)
(*          compares it with.  list_state is kept as app.selected, the     *)
(*          Option<usize> it holds (None is NoneSel).  scrollbar_state is  *)
(*          kept as app.scrollbar_position.                                *)
(* The remaining variables are history variables: they record what the     *)
(* last event was and count events, and no action of the program reads     *)
(* them.                                                                   *)
(***************************************************************************)
EXTENDS Integers, FiniteSets, Sequences, TLC

VARIABLES app, last, downs, idle, snap, ticks, origin, applied

vars == <<app, last, downs, idle, snap, ticks, origin, applied>>

---------------------------------------------------------------------------
(* Program constants *)

max_introduction == 6

menu_length == 7

IntroStepMs == 500

IdleTimeoutMs == 2000

BackgroundStepMs == 500

U16Max == 65535

(* Bounds of the model *)

\* scroll is explored within MaxScroll of either end of the u16 range
MaxScroll == 2

\* select_next is followed up to this index between two renders
MaxSelected == 8

\* consecutive Down presses counted by the history variable downs
MaxDowns == 9

\* redraw ticks counted by the history variable ticks
MaxTicks == 10

\* applications of next_status followed by SpecNextStatus
MaxApplied == 9

\* largest Introduction(k) SpecNextStatus starts from
MaxProbe == 9

---------------------------------------------------------------------------
(* enum AppStatus *)

IntroductionStart == [tag |-> "IntroductionStart", n |-> 0]

Introduction(k) == [tag |-> "Introduction", n |-> k]

IntroductionIdle == [tag |-> "IntroductionIdle", n |-> 0]

List == [tag |-> "List", n |-> 0]

(* enum Background *)

Background == {"First", "Second", "Third"}

BackgroundNext(b) ==
    CASE b = "First" -> "Second"
      [] b = "Second" -> "Third"
      [] b = "Third" -> "First"

(* Option<usize>::None of list_state.selected *)
NoneSel == -1

Min(a, b) == IF a <= b THEN a ELSE b

Max(a, b) == IF a >= b THEN a ELSE b

(* u16::wrapping_sub in place of saturating_sub *)
wrapping_sub(a, b) == (a - b) % (U16Max + 1)

(* u16::saturating_add and u16::saturating_sub *)
saturating_add(a, b) == Min(a + b, U16Max)

saturating_sub(a, b) == Max(a - b, 0)

(* the key codes the host delivers; "x" stands for every other key *)
Keys == {"Enter", "Esc", "Up", "Down", "k", "j", "t", "a", "r", "b", "e", "u", "x"}

(* the gaps of time, in ms, between two events *)
Gaps == {500, 2000}

---------------------------------------------------------------------------
(* App::default, and last_instant = Instant::now() in App::run *)
AppDefault ==
    [title |-> 0,
     status |-> IntroductionStart,
     elapsed |-> 0,
     intro_finalized |-> FALSE,
     selected |-> 0,
     scrollbar_position |-> 0,
     scroll |-> 0,
     locked_in |-> FALSE,
     background |-> "First"]

(* next_status with number <= max_introduction as the guard *)
next_status_off_by_one(s) ==
    CASE s.tag = "IntroductionStart" -> Introduction(0)
      [] s.tag = "Introduction" /\ s.n <= max_introduction -> Introduction(s.n + 1)
      [] s.tag = "Introduction" /\ ~(s.n <= max_introduction) -> IntroductionIdle
      [] OTHER -> s

(* App::next_status *)
next_status(s) ==
    CASE s.tag = "IntroductionStart" -> Introduction(0)
      [] s.tag = "Introduction" /\ s.n < max_introduction -> Introduction(s.n + 1)
      [] s.tag = "Introduction" /\ ~(s.n < max_introduction) -> IntroductionIdle
      [] OTHER -> s

(* select_next wrapping around the menu *)
select_next_wrapping(sel) == IF sel = NoneSel THEN 0 ELSE (sel + 1) % menu_length

(* a render that leaves list_state as it is *)
render_list_no_clamp(sel, area_empty) == sel

(* ListState::select_next and ListState::select_previous, as called at
   main.rs 277 and 269: the index moves by one with saturating arithmetic and
   is not compared with the number of items.  usize::MAX, the result for
   None, is kept as the largest integer of the checker; None is never the
   selection of a list that has items. *)
UsizeMaxStandIn == 2147483647

select_next(sel) == IF sel = NoneSel THEN 0 ELSE sel + 1

select_previous(sel) == IF sel = NoneSel THEN UsizeMaxStandIn ELSE Max(sel - 1, 0)

(* The part of List's stateful render (render_stateful_widget at main.rs 423)
   that writes list_state: nothing when the inner area of the bordered block
   is empty, None for a list without items, and otherwise an index past the
   end is set to the last item. *)
render_list(sel, area_empty) ==
    IF area_empty THEN sel
    ELSE IF menu_length = 0 THEN NoneSel
    ELSE IF sel # NoneSel /\ sel >= menu_length THEN Max(menu_length - 1, 0)
    ELSE sel

(* an Esc arm that also rewinds the content *)
unlock_and_rewind(a) == [a EXCEPT !.locked_in = FALSE, !.scroll = 0]

(* the Enter and Esc arms of App::handle_event *)
lock(a) == [a EXCEPT !.locked_in = TRUE]

unlock(a) == [a EXCEPT !.locked_in = FALSE]

(* App::handle_event *)
handle_event(a, key) ==
    LET m == CASE key = "Enter" /\ ~a.locked_in -> lock(a)
               [] key = "Esc" /\ a.locked_in -> unlock(a)
               [] key = "t" /\ a.title = 0 -> [a EXCEPT !.title = 1]
               [] key = "a" /\ a.title = 1 -> [a EXCEPT !.title = 2]
               [] key = "r" /\ a.title = 2 -> [a EXCEPT !.title = 3]
               [] key = "b" /\ a.title = 3 -> [a EXCEPT !.title = 4]
               [] key = "e" /\ a.title = 4 -> [a EXCEPT !.title = 5]
               [] key = "t" /\ a.title = 5 -> [a EXCEPT !.title = 6]
               [] key = "u" /\ a.title = 6 -> [a EXCEPT !.title = 7]
               [] key \in {"Up", "k"} ->
                    IF a.locked_in
                    THEN [a EXCEPT !.scroll = saturating_sub(a.scroll, 1)]
                    ELSE [a EXCEPT !.scroll = 0,
                                   !.selected = select_previous(a.selected)]
               [] key \in {"Down", "j"} ->
                    IF a.locked_in
                    THEN [a EXCEPT !.scroll = saturating_add(a.scroll, 1)]
                    ELSE [a EXCEPT !.scroll = 0,
                                   !.selected = select_next(a.selected)]
               [] OTHER -> a
    IN [m EXCEPT !.scrollbar_position = m.scroll]

(* a key handler in which only Enter leaves the intro *)
on_key_event_enter_only(a, key) ==
    IF a.status = List
    THEN handle_event(a, key)
    ELSE IF key = "Enter"
    THEN [a EXCEPT !.intro_finalized = TRUE, !.status = List]
    ELSE a

(* the closure given to terminal.on_key_event in App::run *)
on_key_event(a, key) ==
    IF a.status = List
    THEN handle_event(a, key)
    ELSE [a EXCEPT !.intro_finalized = TRUE, !.status = List]

(* a first timer block that finalizes on arriving at IntroductionIdle *)
advance_intro_eager(a) ==
    IF ~a.intro_finalized /\ a.elapsed >= IntroStepMs
    THEN [a EXCEPT !.intro_finalized = IF next_status(a.status) = IntroductionIdle
                                        THEN TRUE ELSE @,
                   !.status = next_status(a.status),
                   !.elapsed = 0]
    ELSE a

(* a second timer block that restarts the intro from its first frame *)
idle_loop_back_to_start(a) ==
    IF a.intro_finalized /\ a.status = IntroductionIdle /\ a.elapsed >= IdleTimeoutMs
    THEN [a EXCEPT !.status = IntroductionStart,
                   !.intro_finalized = FALSE,
                   !.elapsed = 0]
    ELSE a

(* a second timer block that tests for List instead of IntroductionIdle *)
idle_loop_back_from_list(a) ==
    IF a.intro_finalized /\ a.status = List /\ a.elapsed >= IdleTimeoutMs
    THEN [a EXCEPT !.status = Introduction(max_introduction - 1),
                   !.intro_finalized = FALSE,
                   !.elapsed = 0]
    ELSE a

(* the three timer blocks of the closure given to terminal.draw_web *)
advance_intro(a) ==
    IF ~a.intro_finalized /\ a.elapsed >= IntroStepMs
    THEN [a EXCEPT !.intro_finalized = IF next_status(a.status) = a.status
                                        THEN TRUE ELSE @,
                   !.status = next_status(a.status),
                   !.elapsed = 0]
    ELSE a

idle_loop_back(a) ==
    IF a.intro_finalized /\ a.status = IntroductionIdle /\ a.elapsed >= IdleTimeoutMs
    THEN [a EXCEPT !.status = Introduction(max_introduction - 1),
                   !.intro_finalized = FALSE,
                   !.elapsed = 0]
    ELSE a

rotate_background(a) ==
    IF a.intro_finalized /\ a.elapsed >= BackgroundStepMs
    THEN [a EXCEPT !.background = BackgroundNext(a.background), !.elapsed = 0]
    ELSE a

(* App::render: only the List arm writes state, through render_list *)
render(a, area_empty) ==
    IF a.status = List
    THEN [a EXCEPT !.selected = render_list(a.selected, area_empty)]
    ELSE a

(* the closure given to terminal.draw_web in App::run *)
draw_web(a, area_empty) ==
    render(rotate_background(idle_loop_back(advance_intro(a))), area_empty)

---------------------------------------------------------------------------
NoSnap == [valid |-> FALSE, stage |-> "", app |-> AppDefault]

NoLast == [ev |-> "init", key |-> "", from |-> IntroductionStart, gap |-> 0]

IdleFinal(a) == a.status = IntroductionIdle /\ a.intro_finalized

(* scroll stays within MaxScroll of 0 or of u16::MAX, the selection within
   MaxSelected *)
InBounds(a) ==
    /\ a.scroll <= MaxScroll \/ a.scroll >= U16Max - MaxScroll
    /\ a.selected <= MaxSelected

Init ==
    /\ app = AppDefault
    /\ last = NoLast
    /\ downs = -1
    /\ idle = 0
    /\ snap = NoSnap
    /\ ticks = 0
    /\ origin = IntroductionStart
    /\ applied = 0

(* time passes between two events *)
Advance(d) ==
    /\ app' = [app EXCEPT !.elapsed = Min(@ + d, IdleTimeoutMs)]
    /\ last' = [ev |-> "time", key |-> "", from |-> app.status, gap |-> d]
    /\ idle' = IF IdleFinal(app) THEN Min(idle + d, IdleTimeoutMs) ELSE 0
    /\ snap' = NoSnap
    /\ UNCHANGED <<downs, ticks, origin, applied>>

(* a redraw tick; area_empty: the frame leaves the list no inner area.  The
   callback runs at one instant: an Instant::now() it stores is read back by
   the elapsed() of the following block as 0. *)
Tick(area_empty) ==
    /\ app' = draw_web(app, area_empty)
    /\ last' = [ev |-> IF area_empty THEN "tick_empty" ELSE "tick",
                key |-> "", from |-> app.status, gap |-> 0]
    /\ idle' = IF IdleFinal(app) /\ IdleFinal(app') THEN idle ELSE 0
    /\ snap' = NoSnap
    /\ ticks' = IF ticks >= 0 /\ ticks < MaxTicks /\ app.elapsed >= IntroStepMs
                THEN ticks + 1 ELSE -1
    /\ UNCHANGED <<downs, origin, applied>>

(* a key press *)
Key(k) ==
    /\ InBounds(on_key_event(app, k))
    /\ app' = on_key_event(app, k)
    /\ last' = [ev |-> "key", key |-> k, from |-> app.status, gap |-> 0]
    /\ idle' = 0
    /\ ticks' = -1
    /\ snap' = IF app.status = List /\ k = "Enter" /\ ~app.locked_in
               THEN [valid |-> TRUE, stage |-> "locked", app |-> app]
               ELSE IF app.status = List /\ k = "Esc" /\ snap.valid
                       /\ snap.stage = "locked"
               THEN [snap EXCEPT !.stage = "back"]
               ELSE NoSnap
    /\ downs' = IF app.status # List
                THEN (IF app.selected = 0 /\ ~app.locked_in THEN 0 ELSE -1)
                ELSE IF app.locked_in THEN downs
                ELSE IF k \in {"Down", "j"}
                THEN (IF downs >= 0 /\ downs < MaxDowns THEN downs + 1 ELSE -1)
                ELSE IF k \in {"Up", "k"}
                THEN (IF app'.selected = 0 THEN 0 ELSE -1)
                ELSE downs
    /\ UNCHANGED <<origin, applied>>

Next ==
    \/ \E d \in Gaps : Advance(d)
    \/ \E e \in BOOLEAN : Tick(e)
    \/ \E k \in Keys : Key(k)

Spec == Init /\ [][Next]_vars

---------------------------------------------------------------------------
(* next_status on its own: started in any status, applied repeatedly *)

ProbeStatuses ==
    {IntroductionStart, IntroductionIdle, List} \cup {Introduction(k) : k \in 0..MaxProbe}

InitNextStatus ==
    /\ app \in {[AppDefault EXCEPT !.status = s] : s \in ProbeStatuses}
    /\ origin = app.status
    /\ applied = 0
    /\ last = NoLast
    /\ downs = -1
    /\ idle = 0
    /\ snap = NoSnap
    /\ ticks = -1

ApplyNextStatus ==
    /\ applied < MaxApplied
    /\ app' = [app EXCEPT !.status = next_status(app.status)]
    /\ applied' = applied + 1
    /\ UNCHANGED <<origin, last, downs, idle, snap, ticks>>

SpecNextStatus == InitNextStatus /\ [][ApplyNextStatus]_vars

---------------------------------------------------------------------------
(* the scroll offset near u16::MAX: the state after Enter and
   U16Max - MaxScroll presses of Down *)

InitScrollHigh ==
    /\ app = [AppDefault EXCEPT !.status = List,
                                !.intro_finalized = TRUE,
                                !.locked_in = TRUE,
                                !.scroll = U16Max - MaxScroll,
                                !.scrollbar_position = U16Max - MaxScroll]
    /\ last = [ev |-> "key", key |-> "Down", from |-> List, gap |-> 0]
    /\ downs = 0
    /\ idle = 0
    /\ snap = NoSnap
    /\ ticks = -1
    /\ origin = IntroductionStart
    /\ applied = 0

SpecScrollHigh == InitScrollHigh /\ [][Next]_vars

---------------------------------------------------------------------------
(* Properties *)

IsTick(l) == l.ev \in {"tick", "tick_empty"}

IsKey(l, keys) == l.ev = "key" /\ l.key \in keys

(* the order IntroductionStart < Introduction(0) < ... < IntroductionIdle < List *)
Rank(s) ==
    CASE s.tag = "IntroductionStart" -> 0
      [] s.tag = "Introduction" -> s.n + 1
      [] s.tag = "IntroductionIdle" -> max_introduction + 2
      [] s.tag = "List" -> max_introduction + 3

(* C1: a key press in any status other than List, whatever the key and
   whatever intro_finalized was, sets status to List and intro_finalized to
   true and changes nothing else. *)
C1_KeySkipsIntro ==
    [][(last'.ev = "key" /\ app.status # List)
         => app' = [app EXCEPT !.status = List, !.intro_finalized = TRUE]]_vars

(* Down was pressed in the middle of the intro: the menu is shown and the
   selection did not move *)
C1_Witness ==
    /\ IsKey(last, {"Down"})
    /\ last.from = Introduction(3)
    /\ app.status = List
    /\ app.intro_finalized
    /\ app.selected = 0

(* C2, as stated: after exactly 7 redraw ticks from the start, each at least
   500 ms after the previous transition and with no key press, the status is
   IntroductionIdle and intro_finalized is true. *)
C2_SevenTicksFinalize ==
    ticks = max_introduction + 1
        => (app.status = IntroductionIdle /\ app.intro_finalized)

(* C2, amended: after 7 such ticks the status is Introduction(6), after 8 it
   is IntroductionIdle, both with intro_finalized false; after exactly 9 the
   status is IntroductionIdle and intro_finalized is true. *)
C2_NineTicksFinalize ==
    /\ ticks = max_introduction + 1
         => (app.status = Introduction(max_introduction) /\ ~app.intro_finalized)
    /\ ticks = max_introduction + 2
         => (app.status = IntroductionIdle /\ ~app.intro_finalized)
    /\ ticks = max_introduction + 3
         => (app.status = IntroductionIdle /\ app.intro_finalized)

C2_Witness ==
    /\ ticks = max_introduction + 3
    /\ app.status = IntroductionIdle
    /\ app.intro_finalized
    /\ IsTick(last)

(* C3: once finalized in IntroductionIdle, a redraw tick that comes 2 s or
   more after the finalization, with no key pressed, has taken the status to
   Introduction(5): no tick leaves the app finalized in IntroductionIdle with
   2 s of idleness behind it, whatever ticks came in between. *)
C3_IdleTimeoutLoopsBack ==
    (IsTick(last) /\ IdleFinal(app)) => idle < IdleTimeoutMs

(* C4, as stated: in List, after any key event and after any redraw tick,
   the selection is Some(i) with 0 <= i < menu_length. *)
C4_SelectionAlwaysInRange ==
    app.status = List
        => (app.selected # NoneSel /\ 0 <= app.selected /\ app.selected < menu_length)

(* C4, amended: in List the selection is always Some(i) with 0 <= i, and
   i < menu_length after every redraw tick that rendered the list in a
   non-empty area; key presses since that tick may have taken it past the
   end. *)
C4_SelectionInRangeAfterRender ==
    app.status = List
        => /\ app.selected # NoneSel
           /\ 0 <= app.selected
           /\ last.ev = "tick" => app.selected < menu_length

(* the seventh Down went past the end and the next render brought it back *)
C4_Witness ==
    /\ app.status = List
    /\ last.ev = "tick"
    /\ downs = menu_length
    /\ app.selected = menu_length - 1

(* C5, as stated: after n Down or j presses from selection 0, not locked in,
   the selection is n mod L or min(n, L-1), with or without redraw ticks
   between the presses, and scroll is 0 after each press. *)
C5_SelectionAfterDowns ==
    downs >= 0
        => /\ \/ app.selected = downs % menu_length
              \/ app.selected = Min(downs, menu_length - 1)
           /\ (IsKey(last, {"Down", "j"}) /\ last.from = List /\ ~app.locked_in)
                => app.scroll = 0

(* C5, amended: the list does not wrap.  After n Down or j presses from
   selection 0 the selection is at most n, agrees with n below L-1, and is
   min(n, L-1) once a redraw tick has rendered the list in a non-empty area;
   scroll is 0 after each press. *)
C5_SelectionClampedAtRender ==
    downs >= 0
        => /\ app.selected <= downs
           /\ Min(app.selected, menu_length - 1) = Min(downs, menu_length - 1)
           /\ last.ev = "tick" => app.selected = Min(downs, menu_length - 1)
           /\ (IsKey(last, {"Down", "j"}) /\ last.from = List /\ ~app.locked_in)
                => app.scroll = 0

C5_Witness ==
    /\ downs = menu_length + 1
    /\ IsKey(last, {"j"})
    /\ ~app.locked_in
    /\ app.selected = menu_length
    /\ app.scroll = 0

(* C6: from IntroductionStart or Introduction(k), 0 <= k <= 6, n applications
   of next_status give Introduction(k+n) while k+n <= 6 and IntroductionIdle
   from then on (IntroductionStart counting as k = -1), and next_status
   leaves IntroductionIdle as it is. *)
C6_NextStatusReachesIdle ==
    LET k == IF origin = IntroductionStart THEN -1 ELSE origin.n
    IN /\ (origin = IntroductionStart
             \/ (origin.tag = "Introduction" /\ origin.n <= max_introduction))
          => app.status = IF applied = 0 THEN origin
                          ELSE IF k + applied <= max_introduction
                          THEN Introduction(k + applied)
                          ELSE IntroductionIdle
       /\ origin = IntroductionIdle => app.status = IntroductionIdle

C6_Witness ==
    /\ origin = Introduction(0)
    /\ applied = max_introduction + 2
    /\ app.status = IntroductionIdle

(* C7, as stated: in List while locked in, Down or j adds 1 to scroll and Up
   or k subtracts 1 with a floor at 0; the scrollbar position follows and
   nothing else changes. *)
C7_LockedScrollAddsOne ==
    [][(last'.ev = "key" /\ app.status = List /\ app.locked_in)
         => /\ last'.key \in {"Down", "j"}
                 => app' = [app EXCEPT !.scroll = @ + 1,
                                       !.scrollbar_position = app.scroll + 1]
            /\ last'.key \in {"Up", "k"}
                 => app' = [app EXCEPT !.scroll = Max(@ - 1, 0),
                                       !.scrollbar_position = Max(app.scroll - 1, 0)]
      ]_vars

(* C7, amended: Down or j adds 1 with a ceiling at 65535 (u16::MAX), Up or k
   subtracts 1 with a floor at 0; the scrollbar position follows and the
   selection, locked_in, the status and every other field stay. *)
C7_LockedScrollSaturates ==
    [][(last'.ev = "key" /\ app.status = List /\ app.locked_in)
         => /\ last'.key \in {"Down", "j"}
                 => app' = [app EXCEPT !.scroll = Min(@ + 1, U16Max),
                                       !.scrollbar_position = Min(app.scroll + 1, U16Max)]
            /\ last'.key \in {"Up", "k"}
                 => app' = [app EXCEPT !.scroll = Max(@ - 1, 0),
                                       !.scrollbar_position = Max(app.scroll - 1, 0)]
      ]_vars

C7_Witness ==
    /\ IsKey(last, {"Down"})
    /\ last.from = List
    /\ app.locked_in
    /\ app.scroll = U16Max
    /\ app.scrollbar_position = U16Max

(* C8: in List, Enter pressed while not locked in and Escape pressed next
   give back the state Enter was pressed in; and Escape pressed while locked
   in changes locked_in only, so the selection and the scroll accumulated
   while locked in stay. *)
C8_EnterEscRoundTrip ==
    /\ []((snap.valid /\ snap.stage = "back") => app = snap.app)
    /\ [][(last'.ev = "key" /\ last'.key = "Esc" /\ app.status = List /\ app.locked_in)
            => app' = [app EXCEPT !.locked_in = FALSE]]_vars

C8_Witness ==
    /\ snap.valid
    /\ snap.stage = "back"
    /\ IsKey(last, {"Esc"})
    /\ ~app.locked_in
    /\ app.selected = 3
    /\ app.scroll > 0

(* C9: every step keeps the status or moves it forward in the order
   IntroductionStart < Introduction(0) < ... < Introduction(6) <
   IntroductionIdle < List, except the loop-back of a redraw tick to
   Introduction(5), taken from IntroductionIdle with intro_finalized true and
   2 s elapsed, which clears intro_finalized. *)
C9_PhaseMovesForward ==
    [][\/ Rank(app'.status) >= Rank(app.status)
       \/ /\ IsTick(last')
          /\ IdleFinal(app)
          /\ app.elapsed >= IdleTimeoutMs
          /\ app'.status = Introduction(max_introduction - 1)
          /\ ~app'.intro_finalized]_vars

C9_Witness ==
    /\ IsTick(last)
    /\ last.from = IntroductionIdle
    /\ app.status = Introduction(max_introduction - 1)
    /\ ~app.intro_finalized

(* C10, as stated: in List with intro_finalized true, a redraw tick that
   comes after 2 s without a key press resets the status to Introduction(5)
   and clears intro_finalized. *)
C10_ListIdleLoopsBack ==
    [][(IsTick(last') /\ app.status = List /\ app.intro_finalized
          /\ last.ev = "time" /\ last.gap >= IdleTimeoutMs)
         => (app'.status = Introduction(max_introduction - 1)
               /\ ~app'.intro_finalized)]_vars

(* C10, amended: the loop-back is taken from IntroductionIdle, not from List.
   With intro_finalized true and 2 s or more elapsed since last_instant, a
   redraw tick in IntroductionIdle resets the status to Introduction(5) and
   clears intro_finalized, and the next tick 500 ms later moves on to
   Introduction(6); a redraw tick in List leaves the status and the flag as
   they are. *)
C10_IdleLoopsBackFromIntroductionIdle ==
    [][IsTick(last')
         => /\ (IdleFinal(app) /\ app.elapsed >= IdleTimeoutMs)
                 => (app'.status = Introduction(max_introduction - 1)
                       /\ ~app'.intro_finalized
                       /\ app'.elapsed = 0)
            /\ (app.status = Introduction(max_introduction - 1)
                  /\ ~app.intro_finalized /\ app.elapsed >= IntroStepMs)
                 => app'.status = Introduction(max_introduction)
            /\ app.status = List
                 => (app'.status = List /\ app'.intro_finalized)]_vars

(* the tail of the intro is being replayed after a loop-back *)
C10_Witness ==
    /\ last.ev = "tick"
    /\ last.from = Introduction(max_introduction - 1)
    /\ app.status = Introduction(max_introduction)
    /\ ~app.intro_finalized
    /\ app.background # "First"

===========================================================================
